---- MODULE Spec2Model ----
(***************************************************************************)
(* Resume / job matching: skill extraction (enhanced_extractor.py), the    *)
(* hybrid scorer and cosine similarity (ranker.py) and the Find Matches    *)
(* ranking pass (streamlit_app.py) over the jobs written by the ingestion  *)
(* Lambda (lambda_handler.py).                                             *)
(*                                                                         *)
(* Text is a sequence of one-character strings.  Real numbers are exact    *)
(* rationals <<numerator, denominator>>; IEEE rounding is not modelled.    *)
(***************************************************************************)
EXTENDS Integers, Sequences, FiniteSets, TLC

VARIABLES
    text,        \* extractor: the input text
    skills,      \* extractor: [returned, list] of the extract_resume_skills call
    posting_skills, \* extractor: [returned, list] of the Lambda's
                 \* extract_skills_from_text call on the same text
    weights,     \* scorer: the weights argument of compute_final_score
    subscores,   \* scorer: the <<semantic, keyword, recency, popularity>> arguments
    outcome,     \* scorer: [raised, score] of the compute_final_score call
    vecA, vecB,  \* similarity: the arguments of cos_sim_safe
    cosine,      \* similarity: [returned, value] of the cos_sim_safe call
    resume,      \* app: the user's documents in db.resumes (none or one)
    jobs,        \* app: the documents of db.jobs, in the order find() reads them
    results,     \* app: the results list of the Find Matches pass, when that
                 \* is the handler that ran last; empty otherwise
    gaps,        \* app: the skill-gap tables the Find Matches pass builds
    clock,       \* time.time() / utc_now(), in seconds
    calls,       \* rate limiter: OpenAIRateLimiter.calls
    admitted,    \* rate limiter: the times at which wait() returned, in order
    reply,       \* explanations: the last generate_ai_explanation call, its
                 \* api_key, the text returned and whether it sent a request
    sessions,    \* daily refresh: per session, where daily_refresh stands
                 \* and its st.session_state flag
    meta,        \* daily refresh: the last_refresh document of db.meta
    lambda_url,  \* daily refresh: whether LAMBDA_INVOKE_URL is configured
    invocations, \* daily refresh: the times of the POSTs to the Lambda, in order
    pending,     \* ingestion: the futures as_completed has not yielded yet
    all_jobs,    \* ingestion: lambda_handler's all_jobs list
    fetched      \* ingestion: the fetch_jobs_for_query call behind the future
                 \* yielded last: the pages its sources gave, its result

extractorVars == <<text, skills, posting_skills>>
scorerVars == <<weights, subscores, outcome>>
similarityVars == <<vecA, vecB, cosine>>
appVars == <<resume, jobs, results, gaps>>
limiterVars == <<calls, admitted, reply>>
refreshVars == <<sessions, meta, lambda_url, invocations>>
ingestVars == <<pending, all_jobs, fetched>>

vars == <<extractorVars, scorerVars, similarityVars, appVars, clock,
          limiterVars, refreshVars, ingestVars>>

\* before the call returns
NotCalled == "not called"
NoSkills == [returned |-> FALSE, list |-> <<>>]
NoOutcome == [raised |-> NotCalled, score |-> <<0, 1>>]
NoCosine == [returned |-> FALSE, value |-> <<0, 1>>]
NoGaps == [shown |-> FALSE, role_skill_map |-> <<>>, roles |-> <<>>,
           skills |-> <<>>, heatmap |-> <<>>, freq |-> <<>>]
NoMeta == [present |-> FALSE, time |-> 0]
\* no page of either source holds a job
NoPages == [adzuna |-> <<<<>>, <<>>>>, jsearch |-> <<<<>>, <<>>>>]
NoFetch == [called |-> FALSE, pages |-> NoPages, results |-> <<>>]
NoReply == [turn |-> 0, api_key |-> <<>>, text |-> NotCalled, posted |-> FALSE]

(***************************************************************************)
(* Characters                                                              *)
(***************************************************************************)
LowerLetters ==
    <<"a","b","c","d","e","f","g","h","i","j","k","l","m",
      "n","o","p","q","r","s","t","u","v","w","x","y","z">>

UpperLetters ==
    <<"A","B","C","D","E","F","G","H","I","J","K","L","M",
      "N","O","P","Q","R","S","T","U","V","W","X","Y","Z">>

Digits == <<"0","1","2","3","4","5","6","7","8","9">>

\* The characters in code-point order (the order sorted() compares by).
CodePointOrder ==
    <<"\t", "\n", " ", "#", "&", "+", "-", ".", "/">> \o Digits
        \o UpperLetters \o <<"_">> \o LowerLetters

Range(s) == {s[i] : i \in 1..Len(s)}

\* \w and \s of the re module
WordChars ==
    Range(LowerLetters) \cup Range(UpperLetters) \cup Range(Digits) \cup {"_"}

SpaceChars == {" ", "\t", "\n"}

IsWord(c) == c \in WordChars

IsSpace(c) == c \in SpaceChars

\* str.lower() on one character
Lower(c) ==
    IF c \in Range(UpperLetters)
    THEN LowerLetters[CHOOSE i \in 1..Len(UpperLetters) : UpperLetters[i] = c]
    ELSE c

Ord(c) == CHOOSE i \in 1..Len(CodePointOrder) : CodePointOrder[i] = c

(***************************************************************************)
(* SKILL_TAXONOMY and SKILL_ALIASES                                        *)
(***************************************************************************)
SKILL_TAXONOMY == {
    <<"p","y","t","h","o","n">>,
    <<"j","a","v","a">>,
    <<"j","a","v","a","s","c","r","i","p","t">>,
    <<"t","y","p","e","s","c","r","i","p","t">>,
    <<"c">>,
    <<"c","+","+">>,
    <<"c","#">>,
    <<"g","o">>,
    <<"r","u","b","y">>,
    <<"p","h","p">>,
    <<"s","w","i","f","t">>,
    <<"k","o","t","l","i","n">>,
    <<"s","c","a","l","a">>,
    <<"r">>,
    <<"h","t","m","l">>,
    <<"c","s","s">>,
    <<"s","a","s","s">>,
    <<"b","o","o","t","s","t","r","a","p">>,
    <<"t","a","i","l","w","i","n","d"," ","c","s","s">>,
    <<"r","e","a","c","t">>,
    <<"a","n","g","u","l","a","r">>,
    <<"v","u","e",".","j","s">>,
    <<"n","e","x","t",".","j","s">>,
    <<"n","o","d","e",".","j","s">>,
    <<"e","x","p","r","e","s","s",".","j","s">>,
    <<"d","j","a","n","g","o">>,
    <<"f","l","a","s","k">>,
    <<"s","p","r","i","n","g"," ","b","o","o","t">>,
    <<"r","e","s","t"," ","a","p","i">>,
    <<"g","r","a","p","h","q","l">>,
    <<"m","i","c","r","o","s","e","r","v","i","c","e","s">>,
    <<"g","i","t">>,
    <<"g","i","t","h","u","b">>,
    <<"g","i","t","l","a","b">>,
    <<"b","i","t","b","u","c","k","e","t">>,
    <<"a","w","s">>,
    <<"a","z","u","r","e">>,
    <<"g","c","p">>,
    <<"d","o","c","k","e","r">>,
    <<"k","u","b","e","r","n","e","t","e","s">>,
    <<"t","e","r","r","a","f","o","r","m">>,
    <<"j","e","n","k","i","n","s">>,
    <<"c","i"," ","c","d">>,
    <<"a","n","s","i","b","l","e">>,
    <<"l","i","n","u","x">>,
    <<"b","a","s","h">>,
    <<"s","h","e","l","l"," ","s","c","r","i","p","t","i","n","g">>,
    <<"d","a","t","a"," ","a","n","a","l","y","s","i","s">>,
    <<"d","a","t","a"," ","s","c","i","e","n","c","e">>,
    <<"m","a","c","h","i","n","e"," ","l","e","a","r","n","i","n","g">>,
    <<"d","e","e","p"," ","l","e","a","r","n","i","n","g">>,
    <<"a","r","t","i","f","i","c","i","a","l"," ","i","n","t","e","l","l","i","g","e","n","c","e">>,
    <<"n","l","p">>,
    <<"c","o","m","p","u","t","e","r"," ","v","i","s","i","o","n">>,
    <<"p","a","n","d","a","s">>,
    <<"n","u","m","p","y">>,
    <<"s","c","i","k","i","t"," ","l","e","a","r","n">>,
    <<"t","e","n","s","o","r","f","l","o","w">>,
    <<"p","y","t","o","r","c","h">>,
    <<"k","e","r","a","s">>,
    <<"p","o","w","e","r"," ","b","i">>,
    <<"t","a","b","l","e","a","u">>,
    <<"e","x","c","e","l">>,
    <<"s","p","a","r","k">>,
    <<"h","a","d","o","o","p">>,
    <<"a","i","r","f","l","o","w">>,
    <<"k","a","f","k","a">>,
    <<"s","q","l">>,
    <<"m","y","s","q","l">>,
    <<"p","o","s","t","g","r","e","s","q","l">>,
    <<"o","r","a","c","l","e">>,
    <<"m","o","n","g","o","d","b">>,
    <<"c","a","s","s","a","n","d","r","a">>,
    <<"r","e","d","i","s">>,
    <<"d","y","n","a","m","o","d","b">>,
    <<"c","y","b","e","r"," ","s","e","c","u","r","i","t","y">>,
    <<"i","n","f","o","r","m","a","t","i","o","n"," ","s","e","c","u","r","i","t","y">>,
    <<"n","e","t","w","o","r","k"," ","s","e","c","u","r","i","t","y">>,
    <<"p","e","n","e","t","r","a","t","i","o","n"," ","t","e","s","t","i","n","g">>,
    <<"e","t","h","i","c","a","l"," ","h","a","c","k","i","n","g">>,
    <<"r","i","s","k"," ","a","s","s","e","s","s","m","e","n","t">>,
    <<"b","u","s","i","n","e","s","s"," ","a","n","a","l","y","s","i","s">>,
    <<"r","e","q","u","i","r","e","m","e","n","t","s"," ","g","a","t","h","e","r","i","n","g">>,
    <<"s","t","a","k","e","h","o","l","d","e","r"," ","m","a","n","a","g","e","m","e","n","t">>,
    <<"p","r","o","c","e","s","s"," ","i","m","p","r","o","v","e","m","e","n","t">>,
    <<"p","r","o","j","e","c","t"," ","m","a","n","a","g","e","m","e","n","t">>,
    <<"p","r","o","g","r","a","m"," ","m","a","n","a","g","e","m","e","n","t">>,
    <<"p","r","o","d","u","c","t"," ","m","a","n","a","g","e","m","e","n","t">>,
    <<"a","g","i","l","e">>,
    <<"s","c","r","u","m">>,
    <<"k","a","n","b","a","n">>,
    <<"w","a","t","e","r","f","a","l","l">>,
    <<"f","i","n","a","n","c","i","a","l"," ","a","n","a","l","y","s","i","s">>,
    <<"a","c","c","o","u","n","t","i","n","g">>,
    <<"b","u","d","g","e","t","i","n","g">>,
    <<"f","o","r","e","c","a","s","t","i","n","g">>,
    <<"r","i","s","k"," ","m","a","n","a","g","e","m","e","n","t">>,
    <<"t","a","x","a","t","i","o","n">>,
    <<"a","u","d","i","t","i","n","g">>,
    <<"d","i","g","i","t","a","l"," ","m","a","r","k","e","t","i","n","g">>,
    <<"s","e","o">>,
    <<"s","e","m">>,
    <<"c","o","n","t","e","n","t"," ","m","a","r","k","e","t","i","n","g">>,
    <<"e","m","a","i","l"," ","m","a","r","k","e","t","i","n","g">>,
    <<"s","o","c","i","a","l"," ","m","e","d","i","a"," ","m","a","r","k","e","t","i","n","g">>,
    <<"s","a","l","e","s">>,
    <<"b","u","s","i","n","e","s","s"," ","d","e","v","e","l","o","p","m","e","n","t">>,
    <<"l","e","a","d"," ","g","e","n","e","r","a","t","i","o","n">>,
    <<"c","r","m">>,
    <<"r","e","c","r","u","i","t","m","e","n","t">>,
    <<"t","a","l","e","n","t"," ","a","c","q","u","i","s","i","t","i","o","n">>,
    <<"p","a","y","r","o","l","l">>,
    <<"h","r"," ","o","p","e","r","a","t","i","o","n","s">>,
    <<"e","m","p","l","o","y","e","e"," ","e","n","g","a","g","e","m","e","n","t">>,
    <<"p","e","r","f","o","r","m","a","n","c","e"," ","m","a","n","a","g","e","m","e","n","t">>,
    <<"o","p","e","r","a","t","i","o","n","s"," ","m","a","n","a","g","e","m","e","n","t">>,
    <<"s","u","p","p","l","y"," ","c","h","a","i","n"," ","m","a","n","a","g","e","m","e","n","t">>,
    <<"l","o","g","i","s","t","i","c","s">>,
    <<"c","l","i","n","i","c","a","l"," ","r","e","s","e","a","r","c","h">>,
    <<"p","a","t","i","e","n","t"," ","c","a","r","e">>,
    <<"m","e","d","i","c","a","l"," ","c","o","d","i","n","g">>,
    <<"h","e","a","l","t","h","c","a","r","e"," ","a","d","m","i","n","i","s","t","r","a","t","i","o","n">>,
    <<"t","e","a","c","h","i","n","g">>,
    <<"c","u","r","r","i","c","u","l","u","m"," ","d","e","v","e","l","o","p","m","e","n","t">>,
    <<"i","n","s","t","r","u","c","t","i","o","n","a","l"," ","d","e","s","i","g","n">>,
    <<"t","r","a","i","n","i","n","g"," ","a","n","d"," ","d","e","v","e","l","o","p","m","e","n","t">>,
    <<"u","i"," ","d","e","s","i","g","n">>,
    <<"u","x"," ","d","e","s","i","g","n">>,
    <<"f","i","g","m","a">>,
    <<"a","d","o","b","e"," ","p","h","o","t","o","s","h","o","p">>,
    <<"a","d","o","b","e"," ","i","l","l","u","s","t","r","a","t","o","r">>,
    <<"c","o","m","m","u","n","i","c","a","t","i","o","n">>,
    <<"l","e","a","d","e","r","s","h","i","p">>,
    <<"p","r","o","b","l","e","m"," ","s","o","l","v","i","n","g">>,
    <<"c","r","i","t","i","c","a","l"," ","t","h","i","n","k","i","n","g">>,
    <<"t","i","m","e"," ","m","a","n","a","g","e","m","e","n","t">>,
    <<"t","e","a","m"," ","c","o","l","l","a","b","o","r","a","t","i","o","n">>}

\* (alias, canonical) in the dict's insertion order
SKILL_ALIASES == <<
    <<<<"m","l">>, <<"m","a","c","h","i","n","e"," ","l","e","a","r","n","i","n","g">>>>,
    <<<<"a","i">>, <<"a","r","t","i","f","i","c","i","a","l"," ","i","n","t","e","l","l","i","g","e","n","c","e">>>>,
    <<<<"j","s">>, <<"j","a","v","a","s","c","r","i","p","t">>>>,
    <<<<"r","e","a","c","t","j","s">>, <<"r","e","a","c","t">>>>,
    <<<<"n","o","d","e">>, <<"n","o","d","e",".","j","s">>>>,
    <<<<"t","f">>, <<"t","e","n","s","o","r","f","l","o","w">>>>,
    <<<<"c","i","/","c","d">>, <<"c","i"," ","c","d">>>>,
    <<<<"s","p","r","i","n","g","-","b","o","o","t">>, <<"s","p","r","i","n","g"," ","b","o","o","t">>>>,
    <<<<"s","c","i","k","i","t","-","l","e","a","r","n">>, <<"s","c","i","k","i","t"," ","l","e","a","r","n">>>>,
    <<<<"f","p","&","a">>, <<"f","i","n","a","n","c","i","a","l"," ","a","n","a","l","y","s","i","s">>>>,
    <<<<"s","e","o","/","s","e","m">>, <<"s","e","o">>>>,
    <<<<"p","m">>, <<"p","r","o","j","e","c","t"," ","m","a","n","a","g","e","m","e","n","t">>>>,
    <<<<"b","a">>, <<"b","u","s","i","n","e","s","s"," ","a","n","a","l","y","s","i","s">>>>>>

(***************************************************************************)
(* normalize_text                                                          *)
(***************************************************************************)
\* normalize_text without .lower()
normalize_text_mutant_keeps_case(t) ==
    [i \in 1..Len(t) |-> IF t[i] \in {"-", "_"} THEN " " ELSE t[i]]

normalize_text(t) ==
    [i \in 1..Len(t) |->
        LET c == Lower(t[i]) IN IF c \in {"-", "_"} THEN " " ELSE c]

(***************************************************************************)
(* Regular-expression primitives used by the extractor                     *)
(***************************************************************************)
\* the literal lit occurs in t starting at index i
MatchLit(t, i, lit) ==
    /\ i + Len(lit) - 1 <= Len(t)
    /\ \A k \in 1..Len(lit) : t[i + k - 1] = lit[k]

\* (?<!\w) at index i, (?!\w) after index j
NotWordBefore(t, i) == i = 1 \/ ~IsWord(t[i - 1])
NotWordAfter(t, j) == j = Len(t) \/ ~IsWord(t[j + 1])

\* a pattern without \b: every position passes
WordBoundary_mutant_absent(t, i) == TRUE

\* \b between index i-1 and index i  (i in 1..Len(t)+1)
WordBoundary(t, i) ==
    (i > 1 /\ IsWord(t[i - 1])) # (i <= Len(t) /\ IsWord(t[i]))

\* (?<!\w)alias(?!\w) matches at index i
AliasMatchAt(t, i, alias) ==
    /\ MatchLit(t, i, alias)
    /\ NotWordBefore(t, i)
    /\ NotWordAfter(t, i + Len(alias) - 1)

\* re.sub(rf"(?<!\w){alias}(?!\w)", canonical, t): leftmost, non-overlapping
RECURSIVE SubFrom(_, _, _, _)
SubFrom(t, i, alias, canonical) ==
    IF i > Len(t) THEN <<>>
    ELSE IF AliasMatchAt(t, i, alias)
         THEN canonical \o SubFrom(t, i + Len(alias), alias, canonical)
         ELSE <<t[i]>> \o SubFrom(t, i + 1, alias, canonical)

re_sub_alias(alias, canonical, t) == SubFrom(t, 1, alias, canonical)

\* the alias loop of extract_resume_skills, aliases k..13 applied in order
RECURSIVE ApplyAliases(_, _)
ApplyAliases(t, k) ==
    IF k > Len(SKILL_ALIASES) THEN t
    ELSE ApplyAliases(re_sub_alias(SKILL_ALIASES[k][1], SKILL_ALIASES[k][2], t),
                      k + 1)

\* str.split(): the maximal runs of non-whitespace characters
RECURSIVE SplitFrom(_, _, _)
SplitFrom(s, i, cur) ==
    IF i > Len(s) THEN (IF cur = <<>> THEN <<>> ELSE <<cur>>)
    ELSE IF IsSpace(s[i])
         THEN (IF cur = <<>> THEN <<>> ELSE <<cur>>) \o SplitFrom(s, i + 1, <<>>)
         ELSE SplitFrom(s, i + 1, Append(cur, s[i]))

split(s) == SplitFrom(s, 1, <<>>)

\* index after a run of one or more whitespace characters starting at i, 0 if none
RECURSIVE SkipSpaces(_, _, _)
SkipSpaces(t, i, seen) ==
    IF i <= Len(t) /\ IsSpace(t[i]) THEN SkipSpaces(t, i + 1, TRUE)
    ELSE IF seen THEN i ELSE 0

\* tok_k \s+ tok_k+1 ... matched from index i: index after the match, 0 if none
RECURSIVE MatchTokens(_, _, _, _)
MatchTokens(t, i, tokens, k) ==
    IF ~MatchLit(t, i, tokens[k]) THEN 0
    ELSE LET e == i + Len(tokens[k]) IN
         IF k = Len(tokens) THEN e
         ELSE LET n == SkipSpaces(t, e, FALSE) IN
              IF n = 0 THEN 0 ELSE MatchTokens(t, n, tokens, k + 1)

\* re.search(r"\b" + r"\s+".join(map(re.escape, skill.split())) + r"\b", t)
SkillTokens == [skill \in SKILL_TAXONOMY |-> split(skill)]

\* re.search(pattern, skill): the phrase itself is searched instead of the text
SearchSkill_mutant_searches_phrase(skill, t) ==
    LET tokens == SkillTokens[skill] IN
    \E i \in 1..Len(skill) : MatchTokens(skill, i, tokens, 1) # 0

SearchSkill(skill, t) ==
    LET tokens == SkillTokens[skill] IN
    \E i \in 1..Len(t) :
        /\ WordBoundary(t, i)
        /\ LET e == MatchTokens(t, i, tokens, 1) IN
           e # 0 /\ WordBoundary(t, e)

(***************************************************************************)
(* sorted()                                                                *)
(***************************************************************************)
RECURSIVE LexLess(_, _)
LexLess(a, b) ==
    IF a = <<>> THEN b # <<>>
    ELSE IF b = <<>> THEN FALSE
    ELSE IF a[1] = b[1] THEN LexLess(Tail(a), Tail(b))
    ELSE Ord(a[1]) < Ord(b[1])

\* sorted(found, reverse=True)
RECURSIVE sorted_mutant_reverse(_)
sorted_mutant_reverse(S) ==
    IF S = {} THEN <<>>
    ELSE LET m == CHOOSE x \in S : \A y \in S \ {x} : LexLess(y, x)
         IN <<m>> \o sorted_mutant_reverse(S \ {m})

RECURSIVE sorted(_)
sorted(S) ==
    IF S = {} THEN <<>>
    ELSE LET m == CHOOSE x \in S : \A y \in S \ {x} : LexLess(x, y)
         IN <<m>> \o sorted(S \ {m})

(***************************************************************************)
(* extract_resume_skills                                                   *)
(***************************************************************************)
extract_resume_skills(t) ==
    LET substituted == ApplyAliases(normalize_text(t), 1)
        found == {skill \in SKILL_TAXONOMY : SearchSkill(skill, substituted)}
    IN sorted(found)

(***************************************************************************)
(* extract_skills_from_text (lambda_handler.py): the same taxonomy, aliases *)
(* and normalize_text; the taxonomy pattern is (?<!\w)re.escape(skill)(?!\w) *)
(***************************************************************************)
\* re.search(rf"(?<!\w){re.escape(skill)}(?!\w)", t): the phrase letter by
\* letter, its blanks as single spaces
SearchSkillEscaped(skill, t) ==
    \E i \in 1..Len(t) :
        /\ MatchLit(t, i, skill)
        /\ NotWordBefore(t, i)
        /\ NotWordAfter(t, i + Len(skill) - 1)

extract_skills_from_text(t) ==
    LET substituted == ApplyAliases(normalize_text(t), 1)
        found == {skill \in SKILL_TAXONOMY :
                     SearchSkillEscaped(skill, substituted)}
    IN sorted(found)

(***************************************************************************)
(* Input texts: concatenations of at most MaxPieces pieces                 *)
(***************************************************************************)
MaxPieces == 3

Pieces == {
    <<"c","+","+">>, <<"c","#">>, <<"v","u","e",".","j","s">>,
    <<"n","o","d","e",".","j","s">>, <<"j","s">>, <<"M","L">>,
    <<"e","n","j","o","y","s">>, <<"c","i">>, <<"c","d">>, <<"x">>,
    <<" ">>, <<"\t">>, <<"-">>
}

RECURSIVE TextsOf(_)
TextsOf(n) ==
    IF n = 0 THEN {<<>>}
    ELSE LET shorter == TextsOf(n - 1)
         IN shorter \cup {s \o p : s \in shorter, p \in Pieces}

Texts == TextsOf(MaxPieces)

(***************************************************************************)
(* Skill extraction as a state machine: one call of extract_resume_skills  *)
(***************************************************************************)
ExtractorIdle == text = <<>> /\ skills = NoSkills /\ posting_skills = NoSkills
ScorerIdle ==
    weights = [given |-> FALSE, value |-> <<>>] /\ subscores = <<>>
        /\ outcome = NoOutcome
SimilarityIdle == vecA = <<>> /\ vecB = <<>> /\ cosine = NoCosine
AppIdle == resume = <<>> /\ jobs = <<>> /\ results = <<>> /\ gaps = NoGaps
LimiterIdle == calls = <<>> /\ admitted = <<>> /\ reply = NoReply
RefreshIdle ==
    sessions = <<>> /\ meta = NoMeta /\ lambda_url = FALSE
        /\ invocations = <<>>
IngestIdle == pending = 0 /\ all_jobs = <<>> /\ fetched = NoFetch
ClockIdle == clock = 0

InitExtract ==
    /\ text \in Texts
    /\ skills = NoSkills
    /\ posting_skills = NoSkills
    /\ ScorerIdle /\ SimilarityIdle /\ AppIdle
    /\ ClockIdle /\ LimiterIdle /\ RefreshIdle
    /\ IngestIdle

ExtractResume ==
    /\ ~skills.returned
    /\ skills' = [returned |-> TRUE, list |-> extract_resume_skills(text)]
    /\ UNCHANGED <<text, posting_skills, scorerVars, similarityVars, appVars, clock,
                   limiterVars, refreshVars, ingestVars>>

NextExtract == ExtractResume

SpecExtract == InitExtract /\ [][NextExtract]_vars

\* the phrase's tokens occur in t consecutively, separated by whitespace, with
\* no word character right before the first or right after the last of them
OccursWhole(phrase, t) ==
    \E i \in 1..Len(t) :
        /\ NotWordBefore(t, i)
        /\ LET e == MatchTokens(t, i, split(phrase), 1) IN
           e # 0 /\ NotWordAfter(t, e - 1)

\* C1: every taxonomy phrase (dotted and symbol forms included) that occurs as
\* a whole phrase in the lower-cased, hyphen/underscore-normalized text is in
\* the list extract_resume_skills returns.
C1_WholePhraseExtracted ==
    skills.returned =>
        \A p \in SKILL_TAXONOMY :
            OccursWhole(p, normalize_text(text)) => p \in Range(skills.list)

\* the text with every character lower-cased, nothing else changed
LowerText(t) == [i \in 1..Len(t) |-> Lower(t[i])]

\* lit occurs in t with no word character right before or right after it
Standalone(lit, t) ==
    \E i \in 1..Len(t) :
        /\ MatchLit(t, i, lit)
        /\ NotWordBefore(t, i)
        /\ NotWordAfter(t, i + Len(lit) - 1)

ml == <<"m","l">>
machine_learning == <<"m","a","c","h","i","n","e"," ","l","e","a","r","n","i","n","g">>

\* C11: when "ML" in any letter case stands alone in the text (no word
\* character right before or right after it), the returned list contains
\* "machine learning" and does not contain "ml".
C11_MLResolved ==
    (skills.returned /\ Standalone(ml, LowerText(text))) =>
        /\ machine_learning \in Range(skills.list)
        /\ ml \notin Range(skills.list)

C11_Witness ==
    /\ skills.returned
    /\ text = <<"M","L">>
    /\ skills.list = <<machine_learning>>

\* lit occurs in t, and each of its occurrences touches a word character
OnlyEmbedded(lit, t) ==
    /\ \E i \in 1..Len(t) : MatchLit(t, i, lit)
    /\ \A i \in 1..Len(t) :
          MatchLit(t, i, lit) =>
              ~(NotWordBefore(t, i) /\ NotWordAfter(t, i + Len(lit) - 1))

javascript == <<"j","a","v","a","s","c","r","i","p","t">>

\* C12: for every alias a with canonical phrase c, when a occurs in the text
\* only embedded in a longer run of word characters and c does not occur as a
\* whole phrase, the returned list does not contain c.
C12_EmbeddedAliasIgnored ==
    skills.returned =>
        \A k \in 1..Len(SKILL_ALIASES) :
            LET a == SKILL_ALIASES[k][1]
                c == SKILL_ALIASES[k][2]
                nt == normalize_text(text)
            IN (OnlyEmbedded(a, nt) /\ ~OccursWhole(c, nt)) =>
                   c \notin Range(skills.list)

C12_Witness ==
    /\ skills.returned
    /\ text = <<"x","j","s">>
    /\ OnlyEmbedded(<<"j","s">>, normalize_text(text))
    /\ javascript \notin Range(skills.list)

\* a comes strictly before b in code-point order
CodePointBefore(a, b) ==
    \E k \in 1..(Len(a) + 1) :
        /\ \A j \in 1..(k - 1) : j <= Len(b) /\ a[j] = b[j]
        /\ k <= Len(b)
        /\ (k > Len(a) \/ Ord(a[k]) < Ord(b[k]))

\* C13: the returned list is strictly increasing in code-point order (sorted,
\* no duplicates) and each of its elements is a taxonomy phrase.
C13_SortedTaxonomySkills ==
    skills.returned =>
        /\ \A i \in 1..(Len(skills.list) - 1) :
              CodePointBefore(skills.list[i], skills.list[i + 1])
        /\ \A i \in 1..Len(skills.list) : skills.list[i] \in SKILL_TAXONOMY

C13_Witness ==
    /\ skills.returned
    /\ text = <<"n","o","d","e",".","j","s">>
    /\ skills.list = <<javascript, <<"n","o","d","e",".","j","s">>>>

\* C18: for the empty text and for a text of whitespace only the call returns
\* the empty list.
C18_BlankTextNoSkills ==
    (skills.returned /\ \A i \in 1..Len(text) : IsSpace(text[i])) =>
        skills.list = <<>>

C18_Witness ==
    /\ skills.returned
    /\ text = <<" ", "\t">>
    /\ skills.list = <<>>

(***************************************************************************)
(* Exact rational arithmetic: <<numerator, denominator>>, denominator > 0  *)
(***************************************************************************)
RECURSIVE Gcd(_, _)
Gcd(a, b) == IF b = 0 THEN a ELSE Gcd(b, a % b)

Abs(n) == IF n < 0 THEN 0 - n ELSE n

\* n / d in lowest terms, for d # 0
Rat(n, d) ==
    LET g == Gcd(Abs(n), Abs(d)) IN
    IF d > 0 THEN <<n \div g, d \div g>>
    ELSE <<(0 - n) \div g, (0 - d) \div g>>

Zero == Rat(0, 1)
One == Rat(1, 1)
RatAdd(a, b) == Rat(a[1] * b[2] + b[1] * a[2], a[2] * b[2])
RatMul(a, b) == Rat(a[1] * b[1], a[2] * b[2])
\* a / b for b # 0
RatDiv(a, b) == Rat(a[1] * b[2], a[2] * b[1])
RatEq(a, b) == a[1] * b[2] = b[1] * a[2]
RatLeq(a, b) == a[1] * b[2] <= b[1] * a[2]
RatLess(a, b) == a[1] * b[2] < b[1] * a[2]
RatMin(a, b) == IF RatLess(b, a) THEN b ELSE a
RatMax(a, b) == IF RatLess(a, b) THEN b ELSE a
InUnit(a) == RatLeq(Zero, a) /\ RatLeq(a, One)

RECURSIVE RatSum(_)
RatSum(s) == IF s = <<>> THEN Zero ELSE RatAdd(s[1], RatSum(Tail(s)))

(***************************************************************************)
(* compute_final_score (ranker.py)                                         *)
(***************************************************************************)
\* the weights argument: [given |-> FALSE] is weights=None
NoWeights == [given |-> FALSE, value |-> <<>>]
Given(w) == [given |-> TRUE, value |-> w]

DefaultWeights == <<Rat(55, 100), Rat(25, 100), Rat(10, 100), Rat(10, 100)>>

\* if weights is None: weights = [0.55, 0.25, 0.10, 0.10]
default_weights(w) == IF w.given THEN w.value ELSE DefaultWeights

\* faulty variant: only too-short sequences are rejected
weights_rejected_mutant(w) == Len(w) < 4

\* len(weights) != 4 raises ValueError
weights_rejected(w) == Len(w) # 4

\* faulty variant: the weights are used as given
normalize_weights_mutant_raw(w) == w

\* faulty variant: the guard is total != 0, so a negative sum is divided by
normalize_weights_mutant_nonzero(w) ==
    LET total == RatSum(w) IN
    IF ~RatEq(total, Zero)
    THEN [i \in 1..Len(w) |-> RatDiv(w[i], total)]
    ELSE w

\* total = sum(weights); if total > 0: weights = [w / total for w in weights]
normalize_weights(w) ==
    LET total == RatSum(w) IN
    IF RatLess(Zero, total)
    THEN [i \in 1..Len(w) |-> RatDiv(w[i], total)]
    ELSE w

\* faulty variant: the lower end is not clipped
clamp_mutant_upper_only(x) == RatMin(One, x)

\* max(0.0, min(1.0, float(x)))
clamp(x) == RatMax(Zero, RatMin(One, x))

\* weights[0]*semantic + weights[1]*keyword + weights[2]*recency + weights[3]*popularity
blend(w, s) ==
    RatAdd(RatAdd(RatAdd(RatMul(w[1], s[1]), RatMul(w[2], s[2])),
                  RatMul(w[3], s[3])),
           RatMul(w[4], s[4]))

\* the call compute_final_score(s[1], s[2], s[3], s[4], weights=w)
compute_final_score(s, w) ==
    LET w0 == default_weights(w) IN
    IF weights_rejected(w0)
    THEN [raised |-> "ValueError", score |-> Zero]
    ELSE [raised |-> "no",
          score |-> blend(normalize_weights(w0), [i \in 1..4 |-> clamp(s[i])])]

(***************************************************************************)
(* One call of compute_final_score on arguments drawn from small sets      *)
(***************************************************************************)
\* sub-score arguments: below, at and above the ends of [0, 1], and inside
SubscoreValues == {Rat(-1, 2), Rat(0, 1), Rat(3, 10), Rat(1, 1), Rat(3, 2)}

\* raw weight entries: negative, zero and positive
WeightValues == {Rat(-1, 2), Rat(0, 1), Rat(1, 4), Rat(1, 2)}

\* the longest weights sequence passed
MaxWeights == 5

OtherLengths == (0..MaxWeights) \ {4}

\* weights=[1, 1, 1, 1]
UniformWeights == <<Rat(1, 1), Rat(1, 1), Rat(1, 1), Rat(1, 1)>>

WeightVectors ==
    [1..4 -> WeightValues]
        \cup {UniformWeights}
        \cup UNION {[1..n -> {Rat(0, 1), Rat(1, 4)}] : n \in OtherLengths}

WeightArgs == {Given(w) : w \in WeightVectors} \cup {NoWeights}

InitScore ==
    /\ weights \in WeightArgs
    /\ subscores \in [1..4 -> SubscoreValues]
    /\ outcome = NoOutcome
    /\ ExtractorIdle /\ SimilarityIdle /\ AppIdle
    /\ ClockIdle /\ LimiterIdle /\ RefreshIdle
    /\ IngestIdle

Score ==
    /\ outcome.raised = NotCalled
    /\ outcome' = compute_final_score(subscores, weights)
    /\ UNCHANGED <<extractorVars, weights, subscores, similarityVars,
                   appVars, clock, limiterVars, refreshVars, ingestVars>>

NextScore == Score

SpecScore == InitScore /\ [][NextScore]_vars

(***************************************************************************)
(* Properties of compute_final_score                                       *)
(***************************************************************************)
ScoreCalled == outcome.raised # NotCalled

\* a 4-entry weights sequence was passed
FourWeights == weights.given /\ Len(weights.value) = 4

\* min(1, max(0, x)), stated without the model's clamp
Clipped(x) ==
    IF x[1] < 0 THEN <<0, 1>> ELSE IF x[1] > x[2] THEN <<1, 1>> ELSE x

\* sum of w[i] * s[i] over the four entries
WeightedSum(w, s) == RatSum([i \in 1..4 |-> RatMul(w[i], s[i])])

ClippedSubscores == [i \in 1..4 |-> Clipped(subscores[i])]

\* C3: with a 4-entry weight vector of positive sum (entries of any sign) and
\* any four sub-scores, compute_final_score returns a value in [0, 1].
C3_PositiveSumScoreInUnit ==
    (ScoreCalled /\ FourWeights /\ RatLess(Zero, RatSum(weights.value)))
        => (outcome.raised = "no" /\ InUnit(outcome.score))

C5_ClampedInputsEquivalent ==
    (ScoreCalled /\ (weights.given => Len(weights.value) = 4))
        => /\ outcome.raised = "no"
           /\ outcome = compute_final_score(ClippedSubscores, weights)
           /\ RatEq(outcome.score,
                    WeightedSum(normalize_weights(default_weights(weights)),
                                ClippedSubscores))

C5_Witness ==
    /\ ScoreCalled /\ FourWeights
    /\ subscores[1] = Rat(3, 2) /\ subscores[2] = Rat(-1, 2)
    /\ weights.value[1] = Rat(1, 2) /\ weights.value[2] = Rat(1, 4)
    /\ outcome.raised = "no"

\* positive constants the raw weights are multiplied by
ScaleFactors == {Rat(2, 1), Rat(1, 3), Rat(100, 1)}

Scaled(c, w) == [i \in 1..Len(w) |-> RatMul(c, w[i])]

C7_WrongLengthRejected ==
    (ScoreCalled /\ weights.given /\ Len(weights.value) # 4)
        => outcome = [raised |-> "ValueError", score |-> Zero]

C7_Witness ==
    /\ ScoreCalled /\ weights.given /\ Len(weights.value) = 5
    /\ subscores[1] = Rat(3, 2)
    /\ outcome.raised = "ValueError"

\* compute_final_score was called with weights=[1, 1, 1, 1] on four
\* sub-scores of [0, 1]
UniformCall ==
    /\ ScoreCalled
    /\ weights = Given(UniformWeights)
    /\ \A i \in 1..4 : InUnit(subscores[i])

\* what the call with the default weights returns for the same sub-scores
DefaultScore == compute_final_score(subscores, NoWeights).score

\* C17 as stated: for four sub-scores of [0, 1] that are not all equal, the
\* call with weights [1, 1, 1, 1] returns a value different from the value
\* the call with the default weights returns.
C17_UniformDiffersFromDefault ==
    (UniformCall /\ \E i, j \in 1..4 : ~RatEq(subscores[i], subscores[j])) =>
        ~RatEq(outcome.score, DefaultScore)

\* C17 amended: for four sub-scores of [0, 1], the call with weights
\* [1, 1, 1, 1] returns their mean, and that equals the value the call with
\* the default weights returns exactly when 2 * semantic = recency +
\* popularity.
C17_UniformDiffersUnlessBalanced ==
    UniformCall =>
        /\ outcome.raised = "no"
        /\ RatEq(outcome.score, RatMul(Rat(1, 4), RatSum(subscores)))
        /\ RatEq(outcome.score, DefaultScore)
               <=> RatEq(RatMul(Rat(2, 1), subscores[1]),
                         RatAdd(subscores[3], subscores[4]))

C17_Witness ==
    /\ UniformCall
    /\ subscores = <<Rat(0, 1), Rat(1, 1), Rat(0, 1), Rat(0, 1)>>
    /\ outcome.score = Rat(1, 4)
    /\ DefaultScore = Rat(1, 4)

(***************************************************************************)
(* cos_sim_safe (ranker.py).  Vector components are integers; the vectors  *)
(* drawn have an integral Euclidean norm, so the cosine is a rational.     *)
(***************************************************************************)
RECURSIVE SumSeq(_)
SumSeq(s) == IF s = <<>> THEN 0 ELSE s[1] + SumSeq(Tail(s))

\* np.dot(a, b)
Dot(a, b) == SumSeq([i \in 1..Len(a) |-> a[i] * b[i]])

\* the root of a perfect square
Sqrt(n) == CHOOSE r \in 0..n : r * r = n

\* np.linalg.norm(v)
Norm(v) == Sqrt(Dot(v, v))

\* 0.0 / 0.0
NaN == <<0, 0>>

\* faulty variant: no zero guard, so 0.0 / 0.0 is returned
cos_sim_safe_mutant_unguarded(a, b) ==
    LET denom == Norm(a) * Norm(b) IN
    IF denom = 0 THEN NaN ELSE Rat(Dot(a, b), denom)

\* denom = norm(a) * norm(b); 0.0 if denom == 0, else dot(a, b) / denom
cos_sim_safe(a, b) ==
    LET denom == Norm(a) * Norm(b) IN
    IF denom = 0 THEN Zero ELSE Rat(Dot(a, b), denom)

(***************************************************************************)
(* One call of cos_sim_safe on vectors of equal length                     *)
(***************************************************************************)
MaxDim == 2
MaxComp == 4

IsSquare(n) == \E r \in 0..n : r * r = n

VectorsOf(d) ==
    {v \in [1..d -> (0 - MaxComp)..MaxComp] : IsSquare(Dot(v, v))}

InitCos ==
    /\ \E d \in 1..MaxDim : vecA \in VectorsOf(d) /\ vecB \in VectorsOf(d)
    /\ cosine = NoCosine
    /\ ExtractorIdle /\ ScorerIdle /\ AppIdle
    /\ ClockIdle /\ LimiterIdle /\ RefreshIdle
    /\ IngestIdle

CosSim ==
    /\ ~cosine.returned
    /\ cosine' = [returned |-> TRUE, value |-> cos_sim_safe(vecA, vecB)]
    /\ UNCHANGED <<extractorVars, scorerVars, vecA, vecB, appVars, clock,
                   limiterVars, refreshVars, ingestVars>>

NextCos == CosSim

SpecCos == InitCos /\ [][NextCos]_vars

IsZeroVector(v) == \A i \in 1..Len(v) : v[i] = 0

TOP_K == 20

Max(a, b) == IF a < b THEN b ELSE a
Min(a, b) == IF a < b THEN a ELSE b

\* "embedding": None
NoEmbedding == <<>>

\* posted_date as normalize_job leaves it: None, or a timezone-aware datetime
NoDate == [known |-> FALSE, day |-> 0]
DateOn(d) == [known |-> TRUE, day |-> d]

\* the document normalize_job builds: its text is seen through the skills
\* extract_skills_from_text finds in it and the vector the embedding model
\* gives for it (text_vec); the embedding itself is not computed at ingestion
normalize_job(title, hash, job_skills, vec, posted_date) ==
    [title |-> title, job_hash |-> hash, job_id |-> hash, skills |-> job_skills,
     text_vec |-> vec, posted_date |-> posted_date,
     embedding |-> NoEmbedding, active |-> TRUE]

\* faulty variant: insert_one(job), stored postings are not looked up
update_one_upsert_mutant_insert(col, job) == Append(col, job)

\* jobs_col.update_one({"job_hash": h}, {"$set": job}, upsert=True)
update_one_upsert(col, job) ==
    IF \E i \in 1..Len(col) : col[i].job_hash = job.job_hash
    THEN LET i == CHOOSE k \in 1..Len(col) : col[k].job_hash = job.job_hash
         IN [col EXCEPT ![i] = job]
    ELSE Append(col, job)

\* what the app's MongoClient (tz_aware not set) hands back for a stored
\* date: a naive datetime; None stays None
mongo_read_date(stored) ==
    IF stored.known
    THEN [kind |-> "datetime", parses |-> TRUE, aware |-> FALSE,
          day |-> stored.day]
    ELSE [kind |-> "none", parses |-> FALSE, aware |-> FALSE, day |-> 0]

\* 1.0 if days_old <= 1 else 0.8 if days_old <= 7 else 0.6 if days_old <= 30 else 0.3
recency_band(days_old) ==
    IF days_old <= 1 THEN Rat(10, 10)
    ELSE IF days_old <= 7 THEN Rat(8, 10)
    ELSE IF days_old <= 30 THEN Rat(6, 10)
    ELSE Rat(3, 10)

\* the recency block of the ranking loop.  A string (kind "str", which
\* normalize_job never stores) goes through parser.parse first; utc_now() is
\* timezone-aware, and subtracting a naive datetime from it raises TypeError;
\* the bare except turns every exception into 0.5
recency_score(posted_date, now) ==
    IF posted_date.kind = "none" THEN Rat(5, 10)
    ELSE IF posted_date.kind = "str" /\ ~posted_date.parses THEN Rat(5, 10)
    ELSE IF ~posted_date.aware THEN Rat(5, 10)
    ELSE recency_band(now - posted_date.day)

\* faulty variant: divides by the number of job skills
keyword_score_mutant_job_len(resume_skills, job_skills) ==
    Rat(Cardinality(Range(resume_skills) \cap Range(job_skills)),
        Max(1, Len(job_skills)))

\* len(set(resume_skills) & set(job_skills)) / max(1, len(resume_skills))
keyword_score(resume_skills, job_skills) ==
    Rat(Cardinality(Range(resume_skills) \cap Range(job_skills)),
        Max(1, Len(resume_skills)))

\* 0.55 * semantic + 0.25 * keyword + 0.10 * recency + 0.10 * popularity
final_score(semantic, keyword, recency, popularity) ==
    RatAdd(RatAdd(RatAdd(RatMul(Rat(55, 100), semantic),
                         RatMul(Rat(25, 100), keyword)),
                  RatMul(Rat(10, 100), recency)),
           RatMul(Rat(10, 100), popularity))

\* the vector the loop scores a job with
job_vector(job) ==
    IF job.embedding = NoEmbedding THEN job.text_vec ELSE job.embedding

\* faulty variant: the resume's skills the job does not ask for
missing_skills_mutant_swapped(job_skills, resume_skills) ==
    sorted(Range(resume_skills) \ Range(job_skills))

\* sorted(set(job_skills) - set(resume_skills))
missing_skills(job_skills, resume_skills) ==
    sorted(Range(job_skills) \ Range(resume_skills))

\* one iteration of the ranking loop; `at` (the clock reading) and `recency`
\* are kept beside the fields the code stores, for the properties below
match_result(res, job, now) ==
    LET semantic == cos_sim_safe(res.embedding, job_vector(job))
        keyword == keyword_score(res.skills, job.skills)
        recency == recency_score(mongo_read_date(job.posted_date), now)
        popularity == Rat(5, 10)
    IN [job |-> job,
        score |-> final_score(semantic, keyword, recency, popularity),
        semantic |-> semantic,
        keyword |-> keyword,
        missing |-> missing_skills(job.skills, res.skills),
        recency |-> recency,
        at |-> now]

\* faulty variant: a result is placed before the results of equal score
RECURSIVE InsertByScore_mutant_before_equal(_, _)
InsertByScore_mutant_before_equal(r, s) ==
    IF s = <<>> THEN <<r>>
    ELSE IF RatLeq(s[1].score, r.score) THEN <<r>> \o s
    ELSE <<s[1]>> \o InsertByScore_mutant_before_equal(r, Tail(s))

\* results.sort(key=lambda x: x["score"], reverse=True): stable
RECURSIVE InsertByScore(_, _)
InsertByScore(r, s) ==
    IF s = <<>> THEN <<r>>
    ELSE IF RatLess(s[1].score, r.score) THEN <<r>> \o s
    ELSE <<s[1]>> \o InsertByScore(r, Tail(s))

RECURSIVE sort_by_score(_)
sort_by_score(s) ==
    IF s = <<>> THEN <<>>
    ELSE InsertByScore(s[Len(s)], sort_by_score(SubSeq(s, 1, Len(s) - 1)))

\* faulty variant: no cut, every result is kept
first_top_k_mutant_all(rs) == rs

\* results[:TOP_K]
first_top_k(rs) == SubSeq(rs, 1, Min(TOP_K, Len(rs)))

\* top = results[:TOP_K]
top == first_top_k(results)

(***************************************************************************)
(* The skill-gap tables of the Find Matches pass                           *)
(***************************************************************************)
\* faulty variant: the role's set is replaced instead of extended
add_missing_mutant_overwrite(map, role, missing) ==
    IF missing = <<>> THEN map
    ELSE IF \E k \in 1..Len(map) : map[k].role = role
    THEN LET k == CHOOSE n \in 1..Len(map) : map[n].role = role
         IN [map EXCEPT ![k].skills = Range(missing)]
    ELSE Append(map, [role |-> role, skills |-> Range(missing)])

\* for skill in r["missing"]: role_skill_map[role].add(skill)
\* the defaultdict as the sequence of its (key, set) items in insertion
\* order; a result without missing skills never touches its key
add_missing(map, role, missing) ==
    IF missing = <<>> THEN map
    ELSE IF \E k \in 1..Len(map) : map[k].role = role
    THEN LET k == CHOOSE n \in 1..Len(map) : map[n].role = role
         IN [map EXCEPT ![k].skills = @ \cup Range(missing)]
    ELSE Append(map, [role |-> role, skills |-> Range(missing)])

\* the loop over top that fills role_skill_map
RECURSIVE role_skill_map(_)
role_skill_map(t) ==
    IF t = <<>> THEN <<>>
    ELSE add_missing(role_skill_map(SubSeq(t, 1, Len(t) - 1)),
                     t[Len(t)].job.title, t[Len(t)].missing)

\* roles = list(role_skill_map.keys())[:10]
heat_roles(map) == [k \in 1..Min(10, Len(map)) |-> map[k].role]

\* skills = sorted({s for v in role_skill_map.values() for s in v})
heat_skills(map) == sorted(UNION {map[k].skills : k \in 1..Len(map)})

\* heatmap: one row per role of roles, one column per skill of skills
heatmap(map) ==
    LET cols == heat_skills(map) IN
    [r \in 1..Min(10, Len(map)) |->
        [c \in 1..Len(cols) |-> IF cols[c] \in map[r].skills THEN 1 ELSE 0]]

\* all_missing = [skill for r in top for skill in r["missing"]]
RECURSIVE all_missing(_)
all_missing(t) ==
    IF t = <<>> THEN <<>> ELSE t[1].missing \o all_missing(Tail(t))

\* pd.Series(all_missing).value_counts(): each value with its number of
\* occurrences
value_counts(list) ==
    [s \in Range(list) |-> Cardinality({i \in 1..Len(list) : list[i] = s})]

\* .head(10) of the counts in descending order: the ten largest counts; which
\* of several skills with the same count come first is not fixed by pandas,
\* so every choice among equal counts is possible
head_10(counts) ==
    LET all == DOMAIN counts
        sure == {s \in all :
                    Cardinality({t \in all : counts[t] >= counts[s]}) <= 10}
        possible == {s \in all :
                        Cardinality({t \in all : counts[t] > counts[s]}) < 10}
    IN {[s \in sure \cup extra |-> counts[s]] :
           extra \in {x \in SUBSET (possible \ sure) :
                         Cardinality(sure \cup x) = Min(10, Cardinality(all))}}

\* the tables the pass can show for the list t of top results; freq is only
\* built when all_missing is not empty
gap_reports(t) ==
    LET map == role_skill_map(t) IN
    {[shown |-> TRUE, role_skill_map |-> map, roles |-> heat_roles(map),
      skills |-> heat_skills(map), heatmap |-> heatmap(map), freq |-> f] :
        f \in IF all_missing(t) = <<>> THEN {<<>>}
              ELSE head_10(value_counts(all_missing(t)))}

(***************************************************************************)
(* Inputs of the app                                                       *)
(***************************************************************************)
MaxJobs == 2

aws == <<"a","w","s">>
python == <<"p","y","t","h","o","n">>
sql == <<"s","q","l">>

\* skill lists as the extractors return them: sorted, without duplicates
ResumeSkillLists == {<<>>, <<python>>, <<python, sql>>}
JobSkillLists == {<<>>, <<python>>, <<aws, python>>}

\* embeddings (normalize=True): vectors of one common norm
ResumeVectors == {<<5, 0>>}
EmbedVectors == {<<5, 0>>, <<-3, -4>>}

\* posting dates and the days on which the user presses Find Matches
PostedDates == {NoDate, DateOn(0)}
NowDays == {1, 40}

\* the title of posting h: postings 1 and 2 are two postings of one title
\* (their company or location differs), and so on
PostingTitle(h) == (h + 1) \div 2

InitApp ==
    /\ resume = <<>>
    /\ jobs = <<>>
    /\ results = <<>>
    /\ gaps = NoGaps
    /\ ExtractorIdle /\ ScorerIdle /\ SimilarityIdle
    /\ ClockIdle /\ LimiterIdle /\ RefreshIdle
    /\ IngestIdle

\* tab 1, Process Resume: the user's resume document is replaced
ProcessResume ==
    /\ \E rs \in ResumeSkillLists, v \in ResumeVectors :
           resume' = <<[skills |-> rs, embedding |-> v]>>
    /\ results' = <<>>
    /\ gaps' = NoGaps
    /\ UNCHANGED <<extractorVars, scorerVars, similarityVars, jobs, clock,
                   limiterVars, refreshVars, ingestVars>>

\* sidebar, Clear DB
ClearDB ==
    /\ jobs' = <<>>
    /\ resume' = <<>>
    /\ results' = <<>>
    /\ gaps' = NoGaps
    /\ UNCHANGED <<extractorVars, scorerVars, similarityVars, clock,
                   limiterVars, refreshVars, ingestVars>>

\* lambda_handler, one turn of its upsert loop
UpsertJob ==
    /\ \E h \in 1..Min(Len(jobs) + 1, MaxJobs), js \in JobSkillLists,
          v \in EmbedVectors, d \in PostedDates :
           jobs' = update_one_upsert(
                       jobs, normalize_job(PostingTitle(h), h, js, v, d))
    /\ results' = <<>>
    /\ gaps' = NoGaps
    /\ UNCHANGED <<extractorVars, scorerVars, similarityVars, resume, clock,
                   limiterVars, refreshVars, ingestVars>>

\* tab 3, Find Matches (with no resume the handler stops and changes nothing)
FindMatches ==
    /\ resume # <<>>
    /\ \E now \in NowDays :
           results' = sort_by_score(
               [i \in 1..Len(jobs) |-> match_result(resume[1], jobs[i], now)])
    /\ gaps' \in gap_reports(first_top_k(results'))
    /\ jobs' = [i \in 1..Len(jobs) |->
                   [jobs[i] EXCEPT !.embedding = job_vector(jobs[i])]]
    /\ UNCHANGED <<extractorVars, scorerVars, similarityVars, resume, clock,
                   limiterVars, refreshVars, ingestVars>>

NextApp == ProcessResume \/ ClearDB \/ UpsertJob \/ FindMatches

SpecApp == InitApp /\ [][NextApp]_vars

(***************************************************************************)
(* Properties of the ranking pass                                          *)
(***************************************************************************)
ResultIndexes == 1..Len(results)

\* C2: in the ranking pass the final score of every match result lies in
\* [0, 1], and so does the semantic sub-score blended into it, also when the
\* two embeddings have a negative cosine.
C2_RankScoresInUnit ==
    \A i \in ResultIndexes :
        InUnit(results[i].score) /\ InUnit(results[i].semantic)

\* C8: the keyword sub-score of every match result is |R & J| / max(1, |R|)
\* for the resume skills R and the job skills J, lies in [0, 1], and is 0 when
\* the resume has no skills.
C8_KeywordScore ==
    \A i \in ResultIndexes :
        LET R == Range(resume[1].skills)
            J == Range(results[i].job.skills)
            k == results[i].keyword
        IN /\ k[1] * Max(1, Cardinality(R)) = Cardinality(R \cap J) * k[2]
           /\ k[2] > 0
           /\ 0 <= k[1] /\ k[1] <= k[2]
           /\ (R = {} => k[1] = 0)

C8_Witness ==
    \E i \in ResultIndexes :
        /\ resume[1].skills = <<python, sql>>
        /\ results[i].job.skills = <<aws, python>>
        /\ results[i].keyword = <<1, 2>>

\* the age bands of the recency sub-score, in tenths
ClaimedRecency(d) ==
    IF d <= 1 THEN 10 ELSE IF d <= 7 THEN 8 ELSE IF d <= 30 THEN 6 ELSE 3

\* C9: for every job of the pass whose stored posting date is a valid date of
\* age d whole days, the recency sub-score is 1.0 / 0.8 / 0.6 / 0.3 by the
\* bands d <= 1, <= 7, <= 30, > 30; 0.5 only when the date is missing.
C9_RecencyBands ==
    \A i \in ResultIndexes :
        LET r == results[i]
            stored == r.job.posted_date
        IN /\ stored.known =>
                  r.recency[1] * 10
                      = ClaimedRecency(r.at - stored.day) * r.recency[2]
           /\ r.recency = <<1, 2>> => ~stored.known

\* C14: the missing list of every match result is the set difference J minus
\* R of the job's skills J and the resume's skills R in strictly increasing
\* code-point order: no skill of R, every skill of J not in R, nothing else,
\* nothing twice.
C14_MissingIsSortedDifference ==
    \A i \in ResultIndexes :
        LET R == Range(resume[1].skills)
            J == Range(results[i].job.skills)
            m == results[i].missing
        IN /\ Range(m) = J \ R
           /\ \A k \in 1..(Len(m) - 1) : CodePointBefore(m[k], m[k + 1])

C14_Witness ==
    \E i \in ResultIndexes :
        /\ resume[1].skills = <<python>>
        /\ results[i].job.skills = <<aws, python>>
        /\ results[i].missing = <<aws>>

(***************************************************************************)
(* The skill-gap tables on ranked lists longer than TOP_K                  *)
(***************************************************************************)
\* the longest ranked list
MaxResults == 21

SkillPool ==
    <<<<"a","g","i","l","e">>, aws, <<"d","o","c","k","e","r">>,
      <<"e","x","c","e","l">>, <<"f","i","g","m","a">>, <<"g","i","t">>,
      <<"j","a","v","a">>, <<"l","i","n","u","x">>, python,
      <<"s","a","l","e","s">>, <<"s","c","r","u","m">>, sql>>

\* the number of distinct titles / distinct missing skills a list cycles
\* through, and how the missing lists are filled
TitleCycles == {1, 2, 11}
SkillCycles == {1, 3, 11}
Patterns == {"none", "one", "two", "every other"}

\* the missing list of the i-th result: sorted, without duplicates
MissingAt(i, k, p) ==
    LET j == ((i - 1) % k) + 1 IN
    IF p = "none" \/ (p = "every other" /\ i % 2 = 0) THEN <<>>
    ELSE IF p = "two" /\ k > 1
         THEN IF j < k THEN <<SkillPool[j], SkillPool[j + 1]>>
              ELSE <<SkillPool[1], SkillPool[k]>>
         ELSE <<SkillPool[j]>>

\* how the scores of a list lie along the order in which the jobs were read
ScoreOrders == {"equal", "rising", "paired", "alternating"}

\* the score of the i-th job read; scores below 0 occur (the semantic part is
\* not clamped)
ScoreAt(i, q) ==
    IF q = "equal" THEN Rat(1, 2)
    ELSE IF q = "rising" THEN Rat(i - 3, 100)
    ELSE IF q = "paired" THEN Rat(i \div 2, 100)
    ELSE Rat(i % 2, 2)

\* the results list when the ranking loop ends, for n jobs read: the i-th
\* entry belongs to the i-th job read (jobs are numbered by job_hash in read
\* order), seen through the fields the sort and the tables read
LoopResults(n, d, k, p, q) ==
    [i \in 1..n |->
        [job |-> [title |-> ((i - 1) % d) + 1, job_hash |-> i],
         score |-> ScoreAt(i, q),
         missing |-> MissingAt(i, k, p)]]

LoopResultLists ==
    {LoopResults(n, d, k, p, q) :
        n \in 0..MaxResults, d \in TitleCycles, k \in SkillCycles,
        p \in Patterns, q \in ScoreOrders}

InitGaps ==
    /\ results \in LoopResultLists
    /\ resume = <<>> /\ jobs = <<>> /\ gaps = NoGaps
    /\ ExtractorIdle /\ ScorerIdle /\ SimilarityIdle
    /\ ClockIdle /\ LimiterIdle /\ RefreshIdle
    /\ IngestIdle

\* tab 3, after the ranking loop: results is sorted, top is cut and the two
\* tables are built
GapAnalysis ==
    /\ ~gaps.shown
    /\ results' = sort_by_score(results)
    /\ gaps' \in gap_reports(first_top_k(results'))
    /\ UNCHANGED <<extractorVars, scorerVars, similarityVars, resume, jobs,
                   clock, limiterVars, refreshVars, ingestVars>>

NextGaps == GapAnalysis

SpecGaps == InitGaps /\ [][NextGaps]_vars

\* the positions of the ranked list that lie in the top list
TopIndexes == {i \in 1..Len(results) : i <= TOP_K}

\* the skills missing in some top result, and in how many top results
TopMissingSkills == UNION {Range(results[i].missing) : i \in TopIndexes}
CountInTop(s) ==
    Cardinality({i \in TopIndexes : s \in Range(results[i].missing)})

\* C15 as stated: the frequency table maps each skill missing in a top
\* result to the number of top results whose missing list contains it, and to
\* nothing else; each count is at least 1 and at most the length of the top
\* list.
C15_EverySkillCounted ==
    gaps.shown =>
        /\ DOMAIN gaps.freq = TopMissingSkills
        /\ \A s \in TopMissingSkills :
              /\ gaps.freq[s] = CountInTop(s)
              /\ 1 <= gaps.freq[s] /\ gaps.freq[s] <= Cardinality(TopIndexes)

\* C15 amended: the frequency table holds the 10 most frequent skills missing
\* in the top results (all of them when there are at most 10): each reported
\* skill is mapped to the number of top results whose missing list contains
\* it, results below the top list count for nothing, each count is at least 1
\* and at most the length of the top list, and no skill left out is more
\* frequent than a reported one.
C15_TenMostFrequentCounted ==
    gaps.shown =>
        /\ DOMAIN gaps.freq \subseteq TopMissingSkills
        /\ Cardinality(DOMAIN gaps.freq)
               = Min(10, Cardinality(TopMissingSkills))
        /\ \A s \in DOMAIN gaps.freq :
              /\ gaps.freq[s] = CountInTop(s)
              /\ 1 <= gaps.freq[s] /\ gaps.freq[s] <= Cardinality(TopIndexes)
              /\ \A t \in TopMissingSkills \ DOMAIN gaps.freq :
                    CountInTop(t) <= gaps.freq[s]

C15_Witness ==
    /\ gaps.shown
    /\ Len(results) > TOP_K
    /\ Cardinality(TopMissingSkills) > 10
    /\ \E s \in DOMAIN gaps.freq :
          /\ s \in Range(results[TOP_K + 1].missing)
          /\ gaps.freq[s] + 1
                 = Cardinality({i \in 1..Len(results) :
                                   s \in Range(results[i].missing)})

\* the set role_skill_map holds for a title: empty when the title is no key
Recorded(title) ==
    UNION {gaps.role_skill_map[k].skills :
              k \in {n \in 1..Len(gaps.role_skill_map) :
                        gaps.role_skill_map[n].role = title}}

HashesOf(rs) == {rs[i].job.job_hash : i \in 1..Len(rs)}

\* C24: after the pass over n jobs the top list has exactly min(20, n)
\* results, each job read is in results once, the top list is in
\* non-increasing score order, every result left out has a score less than or
\* equal to every result kept, and results of equal score stand in the order
\* in which their jobs were read.
C24_TopListRanked ==
    gaps.shown =>
        LET n == Len(results) IN
        /\ Len(top) = Min(20, n)
        /\ HashesOf(results) = 1..n
        /\ \A i, j \in 1..Len(top) :
              i < j => RatLeq(top[j].score, top[i].score)
        /\ \A i \in 1..Len(top), j \in (Len(top) + 1)..n :
              /\ results[j].job.job_hash \notin HashesOf(top)
              /\ RatLeq(results[j].score, top[i].score)
        /\ \A i, j \in 1..n :
              (i < j /\ RatEq(results[i].score, results[j].score))
                  => results[i].job.job_hash < results[j].job.job_hash

C24_Witness ==
    /\ gaps.shown
    /\ Len(results) = TOP_K + 1
    /\ Len(top) = TOP_K
    /\ RatLess(results[TOP_K + 1].score, top[TOP_K].score)
    /\ results[TOP_K + 1].job.job_hash = 1
    /\ \E i \in 1..(TOP_K - 1) :
          /\ RatEq(top[i].score, top[i + 1].score)
          /\ top[i].job.job_hash < top[i + 1].job.job_hash
          /\ RatLess(top[TOP_K].score, top[i].score)

(***************************************************************************)
(* OpenAIRateLimiter (agentic_openai.py): the module's one rate_limiter,   *)
(* called by generate_ai_explanation before each request.  Time is counted *)
(* in whole seconds.                                                       *)
(***************************************************************************)
\* OpenAIRateLimiter(): max_calls_per_minute
max_calls == 15

\* [t for t in self.calls if now - t < 60]
recent_calls(cs, now) ==
    LET InWindow(t) == now - t < 60 IN SelectSeq(cs, InWindow)

\* 60 - (now - self.calls[0]) + 1
sleep_time(cs, now) == 60 - (now - cs[1]) + 1

\* the last second at which time passes on its own, the number of admissions
\* followed, and the gaps between two calls
MaxClock == 91
MaxAdmitted == 17
CallGaps == {30}

InitLimiter ==
    /\ clock = 0
    /\ calls = <<>>
    /\ admitted = <<>>
    /\ reply = NoReply
    /\ ExtractorIdle /\ ScorerIdle /\ SimilarityIdle /\ AppIdle
    /\ RefreshIdle
    /\ IngestIdle

\* time passes between two calls
LimiterTick ==
    /\ \E d \in CallGaps : clock + d <= MaxClock /\ clock' = clock + d
    /\ UNCHANGED <<extractorVars, scorerVars, similarityVars, appVars,
                   limiterVars, refreshVars, ingestVars>>

\* the body of wait(): returns at once, or sleeps, clears the list and
\* returns at the time it wakes up (time.sleep taken to last as asked)
wait ==
    /\ LET kept == recent_calls(calls, clock) IN
       IF Len(kept) >= max_calls
       THEN /\ clock' = clock + sleep_time(kept, clock)
            /\ calls' = <<clock'>>
       ELSE /\ clock' = clock
            /\ calls' = Append(kept, clock)
    /\ admitted' = Append(admitted, clock')

\* rate_limiter.wait()
Wait ==
    /\ Len(admitted) < MaxAdmitted
    /\ wait
    /\ UNCHANGED <<extractorVars, scorerVars, similarityVars, appVars,
                   reply, refreshVars, ingestVars>>

NextLimiter == LimiterTick \/ Wait

SpecLimiter == InitLimiter /\ [][NextLimiter]_vars

\* C19: of the calls wait() has admitted, at most max_calls (15) lie in any
\* window of 60 seconds, the windows that span a forced sleep included.
C19_AtMostMaxCallsPerWindow ==
    \A i \in 1..Len(admitted) :
        Cardinality({j \in i..Len(admitted) : admitted[j] - admitted[i] < 60})
            <= max_calls

(***************************************************************************)
(* generate_ai_explanation (agentic_openai.py), called once per displayed  *)
(* job with the app's OPENAI_API_KEY                                       *)
(***************************************************************************)
\* str.startswith
startswith(s, prefix) ==
    Len(s) >= Len(prefix) /\ SubSeq(s, 1, Len(prefix)) = prefix

\* faulty variant: only the empty key is turned away
key_rejected_mutant_empty_only(api_key) == api_key = <<>>

\* not api_key or not api_key.startswith("sk-")
key_rejected(api_key) ==
    api_key = <<>> \/ ~startswith(api_key, <<"s","k","-">>)

KeyUnavailable == "AI explanation unavailable (API key missing or invalid)."

\* what requests.post and the reading of its answer come to
PostOutcomes == {"output_text", "status", "no output_text", "raised"}

\* the text returned after the request
reply_text(o) ==
    IF o = "status"
    THEN "AI explanation could not be generated (OpenAI error)."
    ELSE IF o = "no output_text"
    THEN "AI explanation unavailable (empty response)."
    ELSE IF o = "raised"
    THEN "AI explanation could not be generated due to a system issue."
    ELSE "the output_text of the response, stripped"

\* the keys tried: none, one without the prefix, a proper prefix of the
\* prefix, the prefix only, a key with the prefix
ApiKeys ==
    {<<>>, <<"k","e","y">>, <<"s","k">>, <<"s","k","-">>,
     <<"s","k","-","k","e","y">>}

\* one call of generate_ai_explanation
Explain ==
    /\ \E key \in ApiKeys :
          IF key_rejected(key)
          THEN /\ reply' = [turn |-> 1 - reply.turn, api_key |-> key,
                            text |-> KeyUnavailable, posted |-> FALSE]
               /\ UNCHANGED <<clock, calls, admitted, ingestVars>>
          ELSE /\ Len(admitted) < MaxAdmitted
               /\ wait
               /\ \E o \in PostOutcomes :
                     reply' = [turn |-> 1 - reply.turn, api_key |-> key,
                               text |-> reply_text(o), posted |-> TRUE]
    /\ UNCHANGED <<extractorVars, scorerVars, similarityVars, appVars,
                   refreshVars, ingestVars>>

NextExplain == LimiterTick \/ Explain

SpecExplain == InitLimiter /\ [][NextExplain]_vars

\* the key is empty or its first three characters are not "sk-"
EmptyOrUnprefixed(k) ==
    \/ Len(k) = 0
    \/ Len(k) < 3
    \/ k[1] # "s" \/ k[2] # "k" \/ k[3] # "-"

\* C25: a call of generate_ai_explanation whose api_key is empty or does not
\* start with "sk-" returns the fixed "unavailable (API key missing or
\* invalid)" message, sends no HTTP request, leaves the rate limiter's call
\* list as it was and does not sleep.
C25_RejectedKeyTouchesNothing ==
    [][(reply'.turn # reply.turn /\ EmptyOrUnprefixed(reply'.api_key))
          => /\ reply'.text = KeyUnavailable
             /\ ~reply'.posted
             /\ calls' = calls
             /\ admitted' = admitted
             /\ clock' = clock]_vars

\* a rejected call made while the limiter's window is full, where wait()
\* would have slept
C25_Witness ==
    /\ reply.api_key = <<"k","e","y">>
    /\ reply.text = KeyUnavailable
    /\ ~reply.posted
    /\ Len(recent_calls(calls, clock)) >= max_calls

(***************************************************************************)
(* daily_refresh (streamlit_app.py) run by several sessions at once: each  *)
(* session's script run is a thread of the one server process, and the     *)
(* read of db.meta, the POST and the write of db.meta are separate steps   *)
(***************************************************************************)
\* timedelta(days=1), in seconds
Day == 86400

MaxSessions == 2
MaxDays == 2
MaxInvocations == 3

Sessions == 1..MaxSessions

\* a session outside daily_refresh, st.session_state without the flag
FreshSession == [pc |-> "idle", done |-> FALSE, now |-> 0, status |-> "none"]

\* the answers of requests.post: HTTP 200, another status, an exception
Responses == {"200", "500", "raised"}

InitRefresh ==
    /\ clock = 0
    /\ sessions = [s \in Sessions |-> FreshSession]
    /\ meta = NoMeta
    /\ lambda_url \in BOOLEAN
    /\ invocations = <<>>
    /\ ExtractorIdle /\ ScorerIdle /\ SimilarityIdle /\ AppIdle
    /\ LimiterIdle
    /\ IngestIdle

\* time passes, half a day at a time
RefreshTick ==
    /\ clock + Day \div 2 <= MaxDays * Day
    /\ clock' = clock + Day \div 2
    /\ UNCHANGED <<extractorVars, scorerVars, similarityVars, appVars,
                   limiterVars, refreshVars, ingestVars>>

\* daily_refresh up to the POST: the flag test, the read of last_refresh, the
\* clock reading and the two early returns
Begin(s) ==
    /\ sessions[s].pc = "idle"
    /\ ~sessions[s].done
    /\ IF meta.present /\ clock - meta.time < Day
       THEN sessions' = [sessions EXCEPT ![s].done = TRUE]
       ELSE IF ~lambda_url
       THEN sessions' = [sessions EXCEPT ![s].done = TRUE]
       ELSE sessions' = [sessions EXCEPT ![s].pc = "post", ![s].now = clock]
    /\ UNCHANGED <<extractorVars, scorerVars, similarityVars, appVars, clock,
                   limiterVars, meta, lambda_url, invocations, ingestVars>>

\* requests.post(LAMBDA_INVOKE_URL, ...): the Lambda is invoked
Post(s) ==
    /\ sessions[s].pc = "post"
    /\ Len(invocations) < MaxInvocations
    /\ invocations' = Append(invocations, clock)
    /\ \E r \in Responses :
           sessions' = [sessions EXCEPT ![s].pc = "respond", ![s].status = r]
    /\ UNCHANGED <<extractorVars, scorerVars, similarityVars, appVars, clock,
                   limiterVars, meta, lambda_url, ingestVars>>

\* after the POST: last_refresh is written on HTTP 200 only, with the time
\* read before the POST; the finally clause sets the flag
Finish(s) ==
    /\ sessions[s].pc = "respond"
    /\ meta' = IF sessions[s].status = "200"
               THEN [present |-> TRUE, time |-> sessions[s].now]
               ELSE meta
    /\ sessions' = [sessions EXCEPT ![s].pc = "idle", ![s].done = TRUE,
                                    ![s].status = "none"]
    /\ UNCHANGED <<extractorVars, scorerVars, similarityVars, appVars, clock,
                   limiterVars, lambda_url, invocations, ingestVars>>

\* the browser session ends and another one starts: a new st.session_state
NewSession(s) ==
    /\ sessions[s].pc = "idle"
    /\ sessions[s].done
    /\ sessions' = [sessions EXCEPT ![s] = FreshSession]
    /\ UNCHANGED <<extractorVars, scorerVars, similarityVars, appVars, clock,
                   limiterVars, meta, lambda_url, invocations, ingestVars>>

NextRefresh ==
    \/ RefreshTick
    \/ \E s \in Sessions : Begin(s)
    \/ \E s \in Sessions : Post(s)
    \/ \E s \in Sessions : Finish(s)
    \/ \E s \in Sessions : NewSession(s)

SpecRefresh == InitRefresh /\ [][NextRefresh]_vars

\* C20: any two successive invocations of the Lambda by daily_refresh are at
\* least 24 hours apart, whatever the sessions' interleaving and whatever
\* the earlier invocation answered.
C20_OncePerDay ==
    \A i \in 1..(Len(invocations) - 1) :
        invocations[i + 1] - invocations[i] >= Day

(***************************************************************************)
(* The jobs collection across ranking passes and ingestion runs            *)
(***************************************************************************)
\* the documents of col with job_hash h
WithHash(col, h) == {k \in 1..Len(col) : col[k].job_hash = h}

\* C21: in every step, a job document that holds a stored embedding and is
\* still in the collection after the step holds the same embedding, so the
\* next ranking pass reuses it; ingestion of the same posting included.
C21_StoredEmbeddingKept ==
    [][\A i \in 1..Len(jobs) :
           jobs[i].embedding # NoEmbedding =>
               \A k \in WithHash(jobs', jobs[i].job_hash) :
                   jobs'[k].embedding = jobs[i].embedding]_vars

\* C23: the collection holds at most one document per job_hash (an upsert of
\* a stored posting updates its document), and every document has job_id
\* equal to job_hash.
C23_OneDocumentPerHash ==
    /\ \A i, k \in 1..Len(jobs) : jobs[i].job_hash = jobs[k].job_hash => i = k
    /\ \A i \in 1..Len(jobs) : jobs[i].job_id = jobs[i].job_hash

\* a document updated in place: new documents are appended and a ranking
\* pass embeds every document, so a document without embedding in front of
\* one with embedding was upserted again after that pass
C23_Witness ==
    /\ Len(jobs) = MaxJobs
    /\ \E i, k \in 1..Len(jobs) :
          /\ i < k
          /\ jobs[i].embedding = NoEmbedding
          /\ jobs[k].embedding # NoEmbedding

(***************************************************************************)
(* The two extractors on one text: the resume side (enhanced_extractor.py) *)
(* and the job side (lambda_handler.py)                                    *)
(***************************************************************************)
\* normalize_job's call extract_skills_from_text(job_text_for_skills)
ExtractJob ==
    /\ ~posting_skills.returned
    /\ posting_skills' =
           [returned |-> TRUE, list |-> extract_skills_from_text(text)]
    /\ UNCHANGED <<text, skills, scorerVars, similarityVars, appVars, clock,
                   limiterVars, refreshVars, ingestVars>>

NextExtractors == ExtractResume \/ ExtractJob

SpecExtractors == InitExtract /\ [][NextExtractors]_vars

\* C22: on every text the resume-side and the job-side extractor return the
\* same skill sequence.
C22_ExtractorsAgree ==
    (skills.returned /\ posting_skills.returned)
        => skills.list = posting_skills.list

(***************************************************************************)
(* The ingestion Lambda's collection of jobs (lambda_handler.py): one      *)
(* fetch_jobs_for_query call per query, run by a thread pool, and the      *)
(* handler's loop over the futures as they complete.  Only the handler's   *)
(* thread touches all_jobs.  A raw job is "raw" when normalize_job returns *)
(* a document for it (written "job") and "broken" when normalize_job       *)
(* returns None for it.                                                    *)
(***************************************************************************)
MAX_JOB_PAGES == 2
MAX_JOBS_PER_QUERY == 10
MAX_TOTAL_JOBS == 800

\* job_queries = job_queries[:20]
NumQueries == 20

\* normalize_job seen from its caller: the document, or None after an
\* exception
normalized(raw_job) == IF raw_job = "broken" THEN "None" ELSE "job"

\* faulty variant: the per-query cap is never reached
reached_cap_mutant_never(rs) == FALSE

\* len(results) >= MAX_JOBS_PER_QUERY
reached_cap(rs) == Len(rs) >= MAX_JOBS_PER_QUERY

\* the raw jobs in the order the two nested loops meet them: per page, the
\* Adzuna results and then the JSearch results
RECURSIVE raw_stream(_, _)
raw_stream(pages, page) ==
    IF page > MAX_JOB_PAGES THEN <<>>
    ELSE pages.adzuna[page] \o pages.jsearch[page]
             \o raw_stream(pages, page + 1)

\* the loop body over the raw jobs still to come: a job that normalizes is
\* appended, and the function returns as soon as the cap is reached
RECURSIVE append_jobs(_, _)
append_jobs(rs, stream) ==
    IF stream = <<>> THEN rs
    ELSE LET job == normalized(stream[1]) IN
         IF job # "None"
         THEN IF reached_cap(Append(rs, job)) THEN Append(rs, job)
              ELSE append_jobs(Append(rs, job), Tail(stream))
         ELSE append_jobs(rs, Tail(stream))

\* fetch_jobs_for_query, given what fetch_adzuna and fetch_jsearch return for
\* each page of the query
fetch_jobs_for_query(pages) == append_jobs(<<>>, raw_stream(pages, 1))

\* what a source can return for one page: nothing (also after an error), a
\* few jobs with one that does not normalize, only jobs that do not
\* normalize (for the result the same as nothing), more jobs than the cap
NoResults == <<>>
FewWithBroken == <<"raw", "broken", "raw", "raw">>
OnlyBroken == <<"broken", "broken">>
MoreThanCap == [i \in 1..(MAX_JOBS_PER_QUERY + 1) |-> "raw"]

AdzunaPages == {NoResults, FewWithBroken, MoreThanCap}
JSearchPages == {FewWithBroken, OnlyBroken}

SourcePages ==
    [adzuna : [1..MAX_JOB_PAGES -> AdzunaPages],
     jsearch : [1..MAX_JOB_PAGES -> JSearchPages]]

\* all_jobs = [] and the futures submitted
InitIngest ==
    /\ pending = NumQueries
    /\ all_jobs = <<>>
    /\ fetched = NoFetch
    /\ ExtractorIdle /\ ScorerIdle /\ SimilarityIdle /\ AppIdle
    /\ ClockIdle /\ LimiterIdle /\ RefreshIdle

\* one turn of `for f in as_completed(futures)`: at the cap the loop is
\* left, otherwise the result of the future yielded is added
Collect ==
    /\ pending > 0
    /\ IF Len(all_jobs) >= MAX_TOTAL_JOBS
       THEN /\ pending' = 0
            /\ UNCHANGED <<all_jobs, fetched>>
       ELSE \E pages \in SourcePages :
               /\ fetched' = [called |-> TRUE, pages |-> pages,
                              results |-> fetch_jobs_for_query(pages)]
               /\ all_jobs' = all_jobs \o fetched'.results
               /\ pending' = pending - 1
    /\ UNCHANGED <<extractorVars, scorerVars, similarityVars, appVars, clock,
                   limiterVars, refreshVars>>

\* the handler is invoked again, after the loop of the run before has ended
Invoke ==
    /\ pending = 0
    /\ pending' = NumQueries
    /\ all_jobs' = <<>>
    /\ fetched' = NoFetch
    /\ UNCHANGED <<extractorVars, scorerVars, similarityVars, appVars, clock,
                   limiterVars, refreshVars>>

NextIngest == Collect \/ Invoke

SpecIngest == InitIngest /\ [][NextIngest]_vars

\* the number of raw jobs of the pages that normalize
Normalizing(pages) ==
    LET stream == raw_stream(pages, 1) IN
    Cardinality({i \in 1..Len(stream) : stream[i] = "raw"})

\* C26: whatever the pages of the two sources hold, fetch_jobs_for_query
\* returns at most MAX_JOBS_PER_QUERY (10) normalized jobs (the first 10 that
\* normalize, or all of them when fewer do), none of them None, and at every
\* point of the handler's loop over the completed futures all_jobs has at
\* most MAX_TOTAL_JOBS (800) entries.
C26_CollectionBounded ==
    /\ Len(fetched.results) <= 10
    /\ Len(fetched.results) = Min(10, Normalizing(fetched.pages))
    /\ \A i \in 1..Len(fetched.results) : fetched.results[i] = "job"
    /\ Len(all_jobs) <= 800
    /\ \A i \in 1..Len(all_jobs) : all_jobs[i] = "job"

C26_Witness ==
    /\ fetched.called
    /\ Normalizing(fetched.pages) > 10
    /\ \E p \in 1..MAX_JOB_PAGES : fetched.pages.jsearch[p] = FewWithBroken
    /\ Len(fetched.results) = 10
    /\ pending = 0
    /\ Len(all_jobs) = NumQueries * MAX_JOBS_PER_QUERY

====
